---- MODULE Spec2Model ----
(***************************************************************************)
(* Model of the rental market insight pipeline: src/app.py (the dashboard  *)
(* script: upload, column validation, data preparation, clustering and      *)
(* benchmarking), src/src/compute_yield.py and src/src/cluster_markets.py.  *)
(*                                                                          *)
(* Numbers.  A float is a pair <<n, d>> with d >= 0: for d > 0 the          *)
(* rational n/d in lowest terms, <<1,0>> is +inf, <<-1,0>> is -inf and      *)
(* <<0,0>> is NaN, with the IEEE-754 rules for division by zero and for    *)
(* comparisons with NaN.  Finite arithmetic is exact; binary rounding      *)
(* error of float64 is not modelled.                                       *)
(*                                                                          *)
(* Library calls.  StandardScaler.fit_transform and KMeans.fit_predict are  *)
(* scikit-learn code. They are modelled by their contract at the call      *)
(* site: which inputs they reject, and, for KMeans, the set of label       *)
(* vectors a call may return (every row gets a label in 0..k-1, equal rows  *)
(* get equal labels).                                                       *)
(***************************************************************************)
EXTENDS Integers, Sequences, FiniteSets, TLC

VARIABLES
    uploaded_file,  \* the table held by the file uploader, <<>> when none
    df,             \* the data frame of the current script run
    missing,        \* the list `missing` of the column validation
    X,              \* the standardized feature matrix (abstracted), or NoX
    k,              \* the value of the "Number of Micro-Markets" slider
    clicked,        \* whether this script run was started by "Analyze Market"
    pc,             \* position of the script run
    err,            \* what ended the script run early
    prev_k,         \* the k of the latest analysis completed by an earlier run, 0 if none
    ydf,            \* the table handed to compute_yield / cluster_markets
    n_clusters,     \* the n_clusters argument of cluster_markets
    ypc,            \* position of the caller of the yield variant
    yerr            \* the exception raised in the yield variant

vars == <<uploaded_file, df, missing, X, k, clicked, pc, err, prev_k,
          ydf, n_clusters, ypc, yerr>>
appVars == <<uploaded_file, df, missing, X, k, clicked, pc, err, prev_k>>
yieldVars == <<ydf, n_clusters, ypc, yerr>>

----------------------------------------------------------------------------
(* Bounds of the model *)

MaxRows == 3

\* (monthly_rent, carpet_area_sqft) of one uploaded record
RowChoices == << <<0, 1>>, <<9, 1>>, <<10, 1>>, <<11, 1>>,
                 <<10, 0>>, <<0, 0>>, <<10, -1>> >>

\* (annual_rent, property_value) of one record of the yield variant
YieldRowChoices == { <<12, 100>>, <<6, 100>>, <<12, 0>>, <<12, -100>> }

\* n_clusters arguments tried on cluster_markets
MaxClusters == 4

----------------------------------------------------------------------------
(* Floats *)

Abs(x) == IF x < 0 THEN -x ELSE x
Sign(x) == IF x < 0 THEN -1 ELSE IF x > 0 THEN 1 ELSE 0

RECURSIVE GCD(_, _)
GCD(a, b) == IF b = 0 THEN a ELSE GCD(b, a % b)

NaN == <<0, 0>>
PosInf == <<1, 0>>
NegInf == <<-1, 0>>

Norm(n, d) ==
    IF d = 0 THEN <<Sign(n), 0>>
    ELSE LET s == Sign(d)
             g == GCD(Abs(n), Abs(d))
         IN  <<(s * n) \div g, (s * d) \div g>>

FromInt(i) == <<i, 1>>
IsNaN(x) == x = NaN
IsFinite(x) == x[2] > 0

\* x / y
FDiv(x, y) ==
    IF IsNaN(x) \/ IsNaN(y) THEN NaN
    ELSE IF y[2] = 0 THEN (IF x[2] = 0 THEN NaN ELSE <<0, 1>>)
    ELSE IF y[1] = 0 THEN <<Sign(x[1]), 0>>
    ELSE Norm(x[1] * y[2] * Sign(y[1]), x[2] * Abs(y[1]))

\* x * y
FMul(x, y) == Norm(x[1] * y[1], x[2] * y[2])

\* x + y
FAdd(x, y) ==
    IF IsNaN(x) \/ IsNaN(y) THEN NaN
    ELSE IF x[2] = 0 /\ y[2] = 0 THEN (IF x = y THEN x ELSE NaN)
    ELSE IF x[2] = 0 THEN x
    ELSE IF y[2] = 0 THEN y
    ELSE Norm(x[1] * y[2] + y[1] * x[2], x[2] * y[2])

\* x - y
FSub(x, y) == FAdd(x, <<-y[1], y[2]>>)

\* x < y ; every comparison with NaN is false
FLt(x, y) ==
    IF IsNaN(x) \/ IsNaN(y) THEN FALSE
    ELSE IF x[2] = 0 /\ y[2] = 0 THEN x[1] < y[1]
    ELSE x[1] * y[2] < y[1] * x[2]

FLe(x, y) ==
    IF IsNaN(x) \/ IsNaN(y) THEN FALSE
    ELSE x = y \/ FLt(x, y)

\* numpy's round to 0 decimals: nearest integer, halves to the even one
RoundHalfEven(x) ==
    IF x[2] = 0 THEN x
    ELSE LET fl == x[1] \div x[2]
             r2 == 2 * (x[1] - fl * x[2])
         IN  IF r2 < x[2] THEN FromInt(fl)
             ELSE IF r2 > x[2] THEN FromInt(fl + 1)
             ELSE IF fl % 2 = 0 THEN FromInt(fl) ELSE FromInt(fl + 1)

----------------------------------------------------------------------------
(* Data frames: a non-empty sequence of rows, a row maps column names to values *)

NoFile == <<>>
Columns(d) == DOMAIN d[1]
Rows(d) == 1..Len(d)

\* d[c] = v, where v is a sequence of one value per row (pandas column assignment:
\* replaces the column when it exists, appends it otherwise)
SetCol(d, c, v) ==
    [i \in Rows(d) |->
        [x \in (DOMAIN d[i]) \cup {c} |-> IF x = c THEN v[i] ELSE d[i][x]]]

\* d.get(c, default): the column when present, else the scalar on every row
GetOr(d, c, default) ==
    [i \in Rows(d) |-> IF c \in Columns(d) THEN d[i][c] ELSE default]

required_cols == <<"latitude", "longitude", "carpet_area_sqft", "monthly_rent">>
RequiredSet == {required_cols[i] : i \in 1..Len(required_cols)}
OptionalCols == {"amenities_count", "building_age"}
features == <<"latitude", "longitude", "rent_per_sqft", "carpet_area_sqft",
              "amenities_count", "building_age">>
PrepareCols == {"rent_per_sqft", "amenities_count", "building_age"}
AnalyzeCols == {"micro_market", "cluster_median", "pricing_gap_pct",
                "pricing_label", "recommended_rent"}

\* One uploaded row with the columns cols
FileRow(cols, rc) ==
    [c \in cols |->
        CASE c = "latitude" -> 19
          [] c = "longitude" -> 72
          [] c = "monthly_rent" -> rc[1]
          [] c = "carpet_area_sqft" -> rc[2]
          [] c = "amenities_count" -> 3
          [] c = "building_age" -> 20
          [] OTHER -> <<7, 1>>]

\* Files with the mandatory columns only: every multiset of row values, the rows
\* in the order of RowChoices
ValueFiles ==
    UNION { { [i \in 1..n |-> FileRow(RequiredSet, RowChoices[f[i]])] :
                f \in { g \in [1..n -> 1..Len(RowChoices)] :
                            \A i \in 1..(n - 1) : g[i] <= g[i + 1] } }
            : n \in 1..MaxRows }

\* Files with every combination of present columns, fixed row values
SchemaRows == << <<0, 1>>, <<9, 1>>, <<10, 1>>, <<11, 1>> >>
SchemaFiles ==
    { [i \in 1..Len(SchemaRows) |-> FileRow(cols, SchemaRows[i])]
      : cols \in (SUBSET (RequiredSet \cup OptionalCols \cup {"rent_per_sqft"})) \ {{}} }

InputFiles == ValueFiles \cup SchemaFiles

----------------------------------------------------------------------------
(* Column validation, app.py 71-80 *)

MissingColsAll(d) ==
    IF \E i \in 1..Len(required_cols) : required_cols[i] \notin Columns(d)
    THEN required_cols ELSE <<>>

MissingCols(d) ==
    LET absent(c) == c \notin Columns(d)
    IN  SelectSeq(required_cols, absent)

----------------------------------------------------------------------------
(* Library contracts *)

NoX == [state |-> "none"]
ScalerError == [state |-> "error"]
\* The feature matrix d[cols] as floats
FloatCols == {"rent_per_sqft", "rental_yield"}
Matrix(d, cols) ==
    [i \in Rows(d) |->
        [j \in 1..Len(cols) |->
            IF cols[j] \in FloatCols THEN d[i][cols[j]] ELSE FromInt(d[i][cols[j]])]]

HasNaN(M) == \E i \in DOMAIN M : \E j \in DOMAIN M[i] : IsNaN(M[i][j])
HasInf(M) == \E i \in DOMAIN M : \E j \in DOMAIN M[i] : M[i][j] \in {PosInf, NegInf}

\* What of a matrix survives a per-column affine rescaling: its size, whether
\* it holds NaN or inf, and which rows are equal
Abstract(M) ==
    [state |-> "ok", n |-> Len(M), nan |-> HasNaN(M), inf |-> HasInf(M),
     same |-> {{j \in DOMAIN M : M[j] = M[i]} : i \in DOMAIN M}]

\* StandardScaler().fit_transform(M): rejects inf, lets NaN through; each
\* column becomes (x - mean) / scale with scale > 0
ScalerFitTransform(M) == IF HasInf(M) THEN ScalerError ELSE Abstract(M)

KMeansRaisesNoCount(Xa, n) == n < 1 \/ Xa.nan \/ Xa.inf

\* KMeans(n_clusters=n, random_state=42).fit_predict(X) raises for n < 1, for
\* fewer rows than clusters and for NaN or inf in X
KMeansRaises(Xa, n) == n < 1 \/ Xa.nan \/ Xa.inf \/ Xa.n < n

KMeansLabelsOffByOne(Xa, n) ==
    { l \in [1..Xa.n -> 1..n] : \A c \in Xa.same : \A i, j \in c : l[i] = l[j] }

\* The label vectors fit_predict may return: a label in 0..n-1 for every row,
\* equal rows get equal labels
KMeansLabels(Xa, n) ==
    { l \in [1..Xa.n -> 0..(n - 1)] : \A c \in Xa.same : \A i, j \in c : l[i] = l[j] }

----------------------------------------------------------------------------
(* Benchmarking, app.py 127-151 *)

\* the q-th smallest of the values v[i], i in I
Kth(v, I, q) ==
    LET i == CHOOSE i \in I :
                /\ Cardinality({j \in I : FLt(v[j], v[i])}) < q
                /\ Cardinality({j \in I : FLe(v[j], v[i])}) >= q
    IN  v[i]

\* pandas median of the values v[i], i in I (I non-empty, values finite)
Median(v, I) ==
    LET n == Cardinality(I)
    IN  IF n % 2 = 1 THEN Kth(v, I, (n + 1) \div 2)
        ELSE FDiv(FAdd(Kth(v, I, n \div 2), Kth(v, I, n \div 2 + 1)), FromInt(2))

Column(d, c) == [i \in Rows(d) |-> d[i][c]]

GroupMedianAll(d, g) == Median(Column(d, "rent_per_sqft"), Rows(d))

\* df.groupby("micro_market")["rent_per_sqft"].median() at group g
GroupMedian(d, g) ==
    Median(Column(d, "rent_per_sqft"), {i \in Rows(d) : d[i]["micro_market"] = g})

\* ((rent_per_sqft - cluster_median) / cluster_median) * 100
PricingGap(r, m) == FMul(FDiv(FSub(r, m), m), FromInt(100))

labelClosed(x) ==
    IF FLe(x, FromInt(-10)) THEN "Underpriced"
    ELSE IF FLe(FromInt(10), x) THEN "Overpriced"
    ELSE "Fair"

labelElseOver(x) ==
    IF FLt(x, FromInt(-10)) THEN "Underpriced"
    ELSE IF FLe(x, FromInt(10)) THEN "Fair"
    ELSE "Overpriced"

\* app.py 139-145; the strings of the code carry an emoji before the word
label(x) ==
    IF FLt(x, FromInt(-10)) THEN "Underpriced"
    ELSE IF FLt(FromInt(10), x) THEN "Overpriced"
    ELSE "Fair"

RecommendedRentHalfUp(m, area) ==
    LET p == FMul(m, FromInt(area))
    IN  IF p[2] = 0 THEN p ELSE FromInt((2 * p[1] + p[2]) \div (2 * p[2]))

\* (cluster_median * carpet_area_sqft).round(0)
RecommendedRent(m, area) == RoundHalfEven(FMul(m, FromInt(area)))

----------------------------------------------------------------------------
(* The dashboard script, app.py. Streamlit runs the script from the top on  *)
(* every interaction; pc is the position of the current run.                *)

SliderMin == 3
SliderMax == 8
SliderDefault == 5
DefaultAmenities == 1
DefaultBuildingAge == 10

AtRest == pc \in {"nofile", "stopped", "failed", "done", "analyzed"}

\* The run reached the sidebar (app.py 107-117), so its slider and button are
\* on the page: it ended normally or in KMeans, not in st.stop() or the scaler
SidebarShown == pc \in {"done", "analyzed"} \/ (pc = "failed" /\ err = "kmeans")

\* app.py 49-52: the user puts a file into the uploader; the script reruns
Upload(f) ==
    /\ pc = "nofile"
    /\ uploaded_file' = f
    /\ clicked' = FALSE
    /\ pc' = "read"
    /\ UNCHANGED <<df, missing, X, k, err, prev_k>>

\* The user clears the uploader; the script reruns into its else branch (207-208)
RemoveFile ==
    /\ AtRest /\ pc # "nofile"
    /\ uploaded_file' = NoFile
    /\ df' = <<>>
    /\ missing' = <<>>
    /\ X' = NoX
    /\ clicked' = FALSE
    /\ err' = "none"
    /\ prev_k' = 0
    /\ pc' = "nofile"
    /\ UNCHANGED k

\* app.py 109-115: the slider is moved; the script reruns, no button pressed
SetK(v) ==
    /\ SidebarShown
    /\ v # k
    /\ k' = v
    /\ clicked' = FALSE
    /\ prev_k' = IF pc = "analyzed" THEN k ELSE prev_k
    /\ pc' = "read"
    /\ UNCHANGED <<uploaded_file, df, missing, X, err>>

\* app.py 117: the button is pressed; the script reruns with the button true
ClickAnalyze ==
    /\ SidebarShown
    /\ clicked' = TRUE
    /\ prev_k' = IF pc = "analyzed" THEN k ELSE prev_k
    /\ pc' = "read"
    /\ UNCHANGED <<uploaded_file, df, missing, X, k, err>>

\* app.py 57-66: df = pd.read_csv(uploaded_file)
ReadFile ==
    /\ pc = "read"
    /\ df' = uploaded_file
    /\ missing' = <<>>
    /\ X' = NoX
    /\ err' = "none"
    /\ pc' = "validate"
    /\ UNCHANGED <<uploaded_file, k, clicked, prev_k>>

\* app.py 71-80
Validate ==
    /\ pc = "validate"
    /\ missing' = MissingCols(df)
    /\ IF missing' # <<>>
         THEN err' = "schema" /\ pc' = "stopped"
         ELSE err' = err /\ pc' = "prepare"
    /\ UNCHANGED <<uploaded_file, df, X, k, clicked, prev_k>>

\* app.py 87: df["monthly_rent"] / df["carpet_area_sqft"]
RentPerSqft(d) ==
    [i \in Rows(d) |->
        FDiv(FromInt(d[i]["monthly_rent"]), FromInt(d[i]["carpet_area_sqft"]))]

\* app.py 87-89
PrepareData(d) ==
    LET d1 == SetCol(d, "rent_per_sqft", RentPerSqft(d))
        d2 == SetCol(d1, "amenities_count", GetOr(d1, "amenities_count", DefaultAmenities))
    IN  SetCol(d2, "building_age", GetOr(d2, "building_age", DefaultBuildingAge))

\* app.py 85-117, up to the button
Prepare ==
    /\ pc = "prepare"
    /\ df' = PrepareData(df)
    /\ X' = ScalerFitTransform(Matrix(df', features))
    /\ IF X'.state = "error"
         THEN err' = "scaler" /\ pc' = "failed"
         ELSE err' = err /\ pc' = IF clicked THEN "cluster" ELSE "done"
    /\ UNCHANGED <<uploaded_file, missing, k, clicked, prev_k>>

\* app.py 127-151 on a frame that carries micro_market
Benchmark(d) ==
    LET d1 == SetCol(d, "cluster_median",
                  [i \in Rows(d) |-> GroupMedian(d, d[i]["micro_market"])])
        d2 == SetCol(d1, "pricing_gap_pct",
                  [i \in Rows(d) |->
                      PricingGap(d1[i]["rent_per_sqft"], d1[i]["cluster_median"])])
        d3 == SetCol(d2, "pricing_label",
                  [i \in Rows(d) |-> label(d2[i]["pricing_gap_pct"])])
    IN  SetCol(d3, "recommended_rent",
            [i \in Rows(d) |->
                RecommendedRent(d3[i]["cluster_median"], d3[i]["carpet_area_sqft"])])

\* app.py 117-151: clustering and benchmarking
Analyze ==
    /\ pc = "cluster"
    /\ IF KMeansRaises(X, k)
         THEN /\ err' = "kmeans"
              /\ pc' = "failed"
              /\ df' = df
         ELSE /\ \E l \in KMeansLabels(X, k) :
                    df' = Benchmark(SetCol(df, "micro_market", l))
              /\ err' = err
              /\ pc' = "analyzed"
    /\ UNCHANGED <<uploaded_file, missing, X, k, clicked, prev_k>>

AppInit ==
    /\ uploaded_file = NoFile
    /\ df = <<>>
    /\ missing = <<>>
    /\ X = NoX
    /\ k = SliderDefault
    /\ clicked = FALSE
    /\ pc = "nofile"
    /\ err = "none"
    /\ prev_k = 0

YieldIdle ==
    /\ ydf = <<>>
    /\ n_clusters = 0
    /\ ypc = "none"
    /\ yerr = "none"

Init == AppInit /\ YieldIdle

Next ==
    \/ (\E f \in InputFiles : Upload(f)) /\ UNCHANGED yieldVars
    \/ RemoveFile /\ UNCHANGED yieldVars
    \/ (\E v \in SliderMin..SliderMax : SetK(v)) /\ UNCHANGED yieldVars
    \/ ClickAnalyze /\ UNCHANGED yieldVars
    \/ ReadFile /\ UNCHANGED yieldVars
    \/ Validate /\ UNCHANGED yieldVars
    \/ Prepare /\ UNCHANGED yieldVars
    \/ Analyze /\ UNCHANGED yieldVars

Spec == Init /\ [][Next]_vars

----------------------------------------------------------------------------
(* The yield variant: compute_yield.py and cluster_markets.py, called on a  *)
(* table the caller owns.                                                   *)

DefaultClusters == 8
yield_features == <<"rental_yield", "locality_score", "amenities_score">>
YieldCols == {"annual_rent", "property_value", "locality_score", "amenities_score"}

YieldRow(rc) ==
    [c \in YieldCols |->
        CASE c = "annual_rent" -> rc[1]
          [] c = "property_value" -> rc[2]
          [] OTHER -> 5]

YieldTables ==
    UNION { { [i \in 1..n |-> YieldRow(f[i])] : f \in [1..n -> YieldRowChoices] }
            : n \in 1..MaxRows }

\* compute_yield.py 4: (df["annual_rent"] / df["property_value"]) * 100
RentalYield(d) ==
    [i \in Rows(d) |->
        FMul(FDiv(FromInt(d[i]["annual_rent"]), FromInt(d[i]["property_value"])),
             FromInt(100))]

\* compute_yield(df): writes the column into the caller's table
ComputeYield ==
    /\ ypc = "given"
    /\ ydf' = SetCol(ydf, "rental_yield", RentalYield(ydf))
    /\ ypc' = "yielded"
    /\ UNCHANGED <<n_clusters, yerr>>

\* cluster_markets(df, n): KeyError without the feature columns, else KMeans,
\* whose labels are written into the caller's table
ClusterMarkets(n) ==
    /\ ypc \in {"given", "yielded"}
    /\ n_clusters' = n
    /\ IF \E j \in 1..Len(yield_features) : yield_features[j] \notin Columns(ydf)
         THEN yerr' = "KeyError" /\ ypc' = "failed" /\ ydf' = ydf
         ELSE LET Xa == Abstract(Matrix(ydf, yield_features))
              IN  IF KMeansRaises(Xa, n)
                    THEN yerr' = "kmeans" /\ ypc' = "failed" /\ ydf' = ydf
                    ELSE /\ \E l \in KMeansLabels(Xa, n) : ydf' = SetCol(ydf, "cluster", l)
                         /\ yerr' = yerr
                         /\ ypc' = "clustered"

YieldInit ==
    /\ ydf \in YieldTables
    /\ n_clusters = DefaultClusters
    /\ ypc = "given"
    /\ yerr = "none"

YieldNext ==
    \/ ComputeYield /\ UNCHANGED appVars
    \/ (\E n \in (0..MaxClusters) \cup {DefaultClusters} : ClusterMarkets(n))
          /\ UNCHANGED appVars

InitYield == AppInit /\ YieldInit

SpecYield == InitYield /\ [][YieldNext]_vars

----------------------------------------------------------------------------
(* Properties *)

Analyzed == pc = "analyzed"
Members(i) == {j \in Rows(df) : df[j]["micro_market"] = df[i]["micro_market"]}
Labels == {"Underpriced", "Fair", "Overpriced"}

\* C1: every record's pricing_label is one of Underpriced, Fair, Overpriced and
\* is fixed by its pricing_gap_pct n/d alone: below -10 Underpriced, above 10
\* Overpriced, anything else Fair; exactly -10 and exactly 10 are Fair.
C1_LabelByGap ==
    Analyzed =>
        \A i \in Rows(df) :
            LET g == df[i]["pricing_gap_pct"]
                L == df[i]["pricing_label"]
                below == IF g[2] > 0 THEN g[1] < -10 * g[2] ELSE g = NegInf
                above == IF g[2] > 0 THEN g[1] > 10 * g[2] ELSE g = PosInf
            IN  /\ L \in Labels
                /\ below => L = "Underpriced"
                /\ above => L = "Overpriced"
                /\ (~below /\ ~above) => L = "Fair"
                /\ g \in {FromInt(10), FromInt(-10)} => L = "Fair"

C1_Witness ==
    /\ Analyzed
    /\ \E i, j \in Rows(df) :
          /\ df[i]["pricing_gap_pct"] = FromInt(10) /\ df[i]["pricing_label"] = "Fair"
          /\ df[j]["pricing_gap_pct"] = FromInt(-10) /\ df[j]["pricing_label"] = "Fair"

AbsentRequired == RequiredSet \ Columns(uploaded_file)

\* C2: a file lacking required columns ends the run with an error that lists
\* exactly the absent required columns, before any column is derived and before
\* the feature matrix is built; a file with all required columns gives no
\* schema error.
C2_SchemaError ==
    uploaded_file # NoFile =>
        /\ pc = "stopped" =>
              /\ err = "schema"
              /\ {missing[i] : i \in 1..Len(missing)} = AbsentRequired
              /\ Len(missing) = Cardinality(AbsentRequired)
              /\ AbsentRequired # {}
        /\ AbsentRequired # {} =>
              /\ pc \in {"read", "validate", "stopped"}
              /\ df \in {<<>>, uploaded_file}
              /\ X.state = "none"
        /\ AbsentRequired = {} => (err # "schema" /\ missing = <<>> /\ pc # "stopped")

C2_Witness ==
    /\ pc = "stopped"
    /\ AbsentRequired = {"monthly_rent", "latitude"}
    /\ missing = <<"latitude", "monthly_rent">>

PastPrepare == pc \in {"cluster", "done", "analyzed", "failed"}

\* C3: when some record has carpet_area_sqft <= 0 the feature builder fails for
\* the whole batch: the run ends in an error and the frame carries no derived
\* column, so no record holds a NaN or infinite ratio.
C3_NonPositiveAreaRejected ==
    (PastPrepare /\ \E i \in Rows(uploaded_file) : uploaded_file[i]["carpet_area_sqft"] <= 0)
        => (pc = "failed" /\ Columns(df) = Columns(uploaded_file))

\* C4: a record whose cluster median is 0 gets pricing_gap_pct = 0 and label Fair.
C4_ZeroMedianIsFair ==
    Analyzed =>
        \A i \in Rows(df) :
            df[i]["cluster_median"] = FromInt(0) =>
                (df[i]["pricing_gap_pct"] = FromInt(0) /\ df[i]["pricing_label"] = "Fair")

YieldFeaturesUsable ==
    /\ \A j \in 1..Len(yield_features) : yield_features[j] \in Columns(ydf)
    /\ \A i \in Rows(ydf) : IsFinite(ydf[i]["rental_yield"])

\* C5: on a table with usable features, cluster_markets returns an assignment
\* with ids in [0, k) for every 1 <= k <= N, and raises, writing no cluster
\* column, for k > N and for k < 1.
C5_ClusterCount ==
    (ypc \in {"clustered", "failed"} /\ YieldFeaturesUsable) =>
        IF 1 <= n_clusters /\ n_clusters <= Len(ydf)
          THEN /\ ypc = "clustered"
               /\ \A i \in Rows(ydf) : ydf[i]["cluster"] \in 0..(n_clusters - 1)
          ELSE /\ ypc = "failed"
               /\ "cluster" \notin Columns(ydf)

C5_Witness ==
    /\ YieldFeaturesUsable
    /\ ypc = "failed"
    /\ n_clusters = Len(ydf) + 1

\* C6: in every cluster at least half of the members have rent_per_sqft <=
\* cluster_median and at least half have rent_per_sqft >= cluster_median, and
\* the members of a cluster share one cluster_median.
C6_MedianInvariant ==
    Analyzed =>
        \A i \in Rows(df) :
            LET m == df[i]["cluster_median"]
                n == Cardinality(Members(i))
            IN  /\ 2 * Cardinality({j \in Members(i) : FLe(df[j]["rent_per_sqft"], m)}) >= n
                /\ 2 * Cardinality({j \in Members(i) : FLe(m, df[j]["rent_per_sqft"])}) >= n
                /\ \A j \in Members(i) : df[j]["cluster_median"] = m

C6_Witness ==
    /\ Analyzed
    /\ \E i \in Rows(df) :
          /\ Cardinality(Members(i)) = 2
          /\ \A j \in Members(i) : df[j]["rent_per_sqft"] # df[i]["cluster_median"]
    /\ \E i \in Rows(df) :
          /\ Cardinality(Members(i)) = 1

\* C7: the only member of a cluster has cluster_median equal to its own
\* rent_per_sqft and the label Fair.
C7_SoleMemberFair ==
    Analyzed =>
        \A i \in Rows(df) :
            Members(i) = {i} =>
                /\ df[i]["cluster_median"] = df[i]["rent_per_sqft"]
                /\ df[i]["pricing_label"] = "Fair"

C7_Witness ==
    /\ Analyzed
    /\ \E i, j \in Rows(df) :
          /\ Members(i) = {i} /\ df[i]["rent_per_sqft"] = FromInt(0)
          /\ Members(j) = {j} /\ df[j]["rent_per_sqft"] = FromInt(11)

\* C8: every column of the uploaded file keeps its value in every record of
\* the frame the pipeline works on.
C8_InputPreserved ==
    (uploaded_file # NoFile /\ df # <<>>) =>
        \A i \in Rows(uploaded_file) : \A c \in Columns(uploaded_file) :
            c \in Columns(df) /\ df[i][c] = uploaded_file[i][c]

\* C9: after any sequence of runs the frame shows the latest run only: the
\* uploaded columns plus one of each derived column, every micro_market in
\* [0, k) for the k of this run, every cluster_median the median of
\* rent_per_sqft over the records sharing that micro_market now.
C9_LatestRunOnly ==
    Analyzed =>
        /\ Len(df) = Len(uploaded_file)
        /\ Columns(df) = Columns(uploaded_file) \cup PrepareCols \cup AnalyzeCols
        /\ \A i \in Rows(df) :
              /\ df[i]["micro_market"] \in 0..(k - 1)
              /\ df[i]["cluster_median"]
                    = Median(Column(df, "rent_per_sqft"), Members(i))

C9_Witness ==
    /\ Analyzed
    /\ prev_k # 0
    /\ prev_k # k
    /\ \E i \in Rows(df) : df[i]["micro_market"] = k - 1

\* C10: recommended_rent is a whole number nearest to cluster_median *
\* carpet_area_sqft, and of the two nearest whole numbers of a product that
\* lies halfway it is always the even one.
C10_RecommendedRent ==
    Analyzed =>
        \A i \in Rows(df) :
            LET p == FMul(df[i]["cluster_median"], FromInt(df[i]["carpet_area_sqft"]))
                r == df[i]["recommended_rent"]
                dist2 == 2 * Abs(r[1] * p[2] - p[1])
            IN  /\ r[2] = 1
                /\ dist2 <= p[2]
                /\ dist2 = p[2] => r[1] % 2 = 0

Product(i) == FMul(df[i]["cluster_median"], FromInt(df[i]["carpet_area_sqft"]))
Halfway(x) == x[2] = 2

C10_Witness ==
    /\ Analyzed
    /\ \E i, j \in Rows(df) :
          /\ Halfway(Product(i)) /\ FLt(df[i]["recommended_rent"], Product(i))
          /\ Halfway(Product(j)) /\ FLt(Product(j), df[j]["recommended_rent"])

====
